---- MODULE Spec2Model ----
(***************************************************************************)
(* A model of the Breakout game of this repository: the screen state       *)
(* machine (AppState, GameState, MenuState), the countdown, and the        *)
(* fixed-tick simulation step (apply_velocity, move_paddle,                *)
(* check_for_collisions, play_sounds) of src/src/screens/game.rs.          *)
(*                                                                         *)
(* Lengths are integers in 1/Unit pixel; velocities in 1/Unit pixel per    *)
(* second; f32 rounding is not modelled.  Time is counted in whole fixed   *)
(* timesteps: a frame's delta is the number of FixedUpdate runs it pays    *)
(* for.  One frame of the engine's Main schedule is FrameStart (input,     *)
(* StateTransition), then its FixedTick runs, then Update.                 *)
(*                                                                         *)
(* The screens import AppState from the crate root; src/src/main.rs holds  *)
(* an earlier root, whose state enum is named GameState, has no Win and    *)
(* installs the menu and game plugins only.  AppStates and Plugins below   *)
(* are the root the screens are written against.                           *)
(***************************************************************************)
EXTENDS Integers, Sequences, FiniteSets, TLC

\* ------------------------------------------------------------------ bounds
\* resolution of lengths: units per pixel
Unit == 1000
\* longest frame delta: the most FixedUpdate runs of one frame
MaxFrameDelta == 2
\* fixed ticks simulated in one run of the application
MaxTicks == 32
\* rate of the FixedUpdate schedule, ticks per second: time.delta_secs() is
\* 1 / FixedHz.  The engine's default is 64; any rate that moves the ball by
\* less than its radius per tick gives the same collisions.
FixedHz == 20

\* --------------------------------------------------------------- constants

PADDLE_SIZE_X == 120
PADDLE_SIZE_Y == 20
GAP_BETWEEN_PADDLE_AND_FLOOR == 60
PADDLE_SPEED == 500
PADDLE_PADDING == 10

BALL_STARTING_POSITION == [x |-> 0 * Unit, y |-> (0 - 50) * Unit]
BALL_DIAMETER == 30
BALL_SPEED == 400
\* Vec2::new(0.5, -0.5), in 1/Unit
INITIAL_BALL_DIRECTION == [x |-> Unit \div 2, y |-> 0 - (Unit \div 2)]

WALL_THICKNESS == 10
LEFT_WALL == 0 - 450
RIGHT_WALL == 450
BOTTOM_WALL == 0 - 300
TOP_WALL == 300

BRICK_SIZE_X == 100
BRICK_SIZE_Y == 30
GAP_BETWEEN_PADDLE_AND_BRICKS == 270
GAP_BETWEEN_BRICKS == 5
GAP_BETWEEN_BRICKS_AND_CEILING == 20
GAP_BETWEEN_BRICKS_AND_SIDES == 20

INITIAL_LIVES == 3

STARTING_GAME_DURATION_SECS == 3
GO_DISPLAY_DURATION_SECS == 1

\* ------------------------------------------------------------- arithmetic
Abs(a) == IF a < 0 THEN 0 - a ELSE a

Sgn(a) == IF a < 0 THEN 0 - 1 ELSE IF a > 0 THEN 1 ELSE 0

\* a / b rounded toward zero (b > 0)
Quot(a, b) == Sgn(a) * (Abs(a) \div b)

Min(a, b) == IF a < b THEN a ELSE b

Max(a, b) == IF a > b THEN a ELSE b

\* f32::clamp
Clamp(v, lo, hi) == Max(lo, Min(v, hi))

RECURSIVE IsqrtIn(_, _, _)
\* the largest r in lo .. hi with r * r <= n, by bisection
IsqrtIn(n, lo, hi) ==
    IF lo >= hi THEN lo
    ELSE LET mid == (lo + hi + 1) \div 2
         IN  IF mid * mid <= n THEN IsqrtIn(n, mid, hi) ELSE IsqrtIn(n, lo, mid - 1)

\* floor of the square root (n < 2^30)
Isqrt(n) == IsqrtIn(n, 0, 32767)

\* seconds of one fixed timestep applied to a rate: rate * time.delta_secs()
PerTick(rate) == Quot(rate, FixedHz)

\* a duration in seconds, in fixed timesteps
Secs(s) == s * FixedHz

\* ---------------------------------------------------------------- layout
\* Velocity(INITIAL_BALL_DIRECTION.normalize() * BALL_SPEED)
StartVelocity ==
    LET d == INITIAL_BALL_DIRECTION
        len == Isqrt(d.x * d.x + d.y * d.y)
    IN  [x |-> Quot(d.x * BALL_SPEED * Unit, len),
         y |-> Quot(d.y * BALL_SPEED * Unit, len)]

\* the ball entity spawned by game_setup
NewBall ==
    [x |-> BALL_STARTING_POSITION.x, y |-> BALL_STARTING_POSITION.y,
     vx |-> StartVelocity.x, vy |-> StartVelocity.y]

WallLocations == <<"Left", "Right", "Bottom", "Top">>

\* WallLocation::position
WallPosition(loc) ==
    CASE loc = "Left" -> [x |-> LEFT_WALL * Unit, y |-> 0]
      [] loc = "Right" -> [x |-> RIGHT_WALL * Unit, y |-> 0]
      [] loc = "Bottom" -> [x |-> 0, y |-> BOTTOM_WALL * Unit]
      [] loc = "Top" -> [x |-> 0, y |-> TOP_WALL * Unit]

\* WallLocation::size
WallSize(loc) ==
    LET arena_height == TOP_WALL - BOTTOM_WALL
        arena_width == RIGHT_WALL - LEFT_WALL
    IN  IF loc \in {"Left", "Right"}
        THEN [x |-> WALL_THICKNESS * Unit, y |-> (arena_height + WALL_THICKNESS) * Unit]
        ELSE [x |-> (arena_width + WALL_THICKNESS) * Unit, y |-> WALL_THICKNESS * Unit]

\* the wall entities spawned by game_setup; only Bottom carries Deadly
NewWalls == WallLocations

paddle_y == BOTTOM_WALL + GAP_BETWEEN_PADDLE_AND_FLOOR

total_width_of_bricks == (RIGHT_WALL - LEFT_WALL) - 2 * GAP_BETWEEN_BRICKS_AND_SIDES

bottom_edge_of_bricks == paddle_y + GAP_BETWEEN_PADDLE_AND_BRICKS

total_height_of_bricks == TOP_WALL - bottom_edge_of_bricks - GAP_BETWEEN_BRICKS_AND_CEILING

n_columns == total_width_of_bricks \div (BRICK_SIZE_X + GAP_BETWEEN_BRICKS)

n_rows == total_height_of_bricks \div (BRICK_SIZE_Y + GAP_BETWEEN_BRICKS)

\* translation of the brick in the given row and column
BrickPosition(row, column) ==
    LET n_vertical_gaps == n_columns - 1
        center_of_bricks == ((LEFT_WALL + RIGHT_WALL) * Unit) \div 2
        left_edge_of_bricks ==
            center_of_bricks - ((n_columns * BRICK_SIZE_X * Unit) \div 2)
                             - ((n_vertical_gaps * GAP_BETWEEN_BRICKS * Unit) \div 2)
        offset_x == left_edge_of_bricks + (BRICK_SIZE_X * Unit) \div 2
        offset_y == bottom_edge_of_bricks * Unit + (BRICK_SIZE_Y * Unit) \div 2
    IN  [x |-> offset_x + column * (BRICK_SIZE_X + GAP_BETWEEN_BRICKS) * Unit,
         y |-> offset_y + row * (BRICK_SIZE_Y + GAP_BETWEEN_BRICKS) * Unit]

\* the brick entities spawned by game_setup, named by <<row, column>>
BrickGrid == (0 .. n_rows - 1) \X (0 .. n_columns - 1)

\* -------------------------------------------------------------- colliders
\* The entities matched by collider_query, each with the Aabb2d that
\* check_for_collisions builds from its Transform (centre, half size).
\* id: <<0, i, 0>> the i-th paddle, <<1, i, 0>> the i-th wall, <<2, row, column>>
PaddleCollider(i, px) ==
    [kind |-> "Paddle", id |-> <<0, i, 0>>, x |-> px, y |-> paddle_y * Unit,
     hx |-> (PADDLE_SIZE_X * Unit) \div 2, hy |-> (PADDLE_SIZE_Y * Unit) \div 2,
     brick |-> FALSE, deadly |-> FALSE]

WallCollider(i, loc) ==
    [kind |-> loc, id |-> <<1, i, 0>>, x |-> WallPosition(loc).x, y |-> WallPosition(loc).y,
     hx |-> WallSize(loc).x \div 2, hy |-> WallSize(loc).y \div 2,
     brick |-> FALSE, deadly |-> (loc = "Bottom")]

BrickAabb(b) ==
    [kind |-> "Brick", id |-> <<2, b[1], b[2]>>, x |-> BrickPosition(b[1], b[2]).x,
     y |-> BrickPosition(b[1], b[2]).y,
     hx |-> (BRICK_SIZE_X * Unit) \div 2, hy |-> (BRICK_SIZE_Y * Unit) \div 2,
     brick |-> TRUE, deadly |-> FALSE]

\* the brick colliders, which never move, as a table
BrickColliders == [b \in BrickGrid |-> BrickAabb(b)] @@ <<>>

BrickCollider(b) == BrickColliders[b]

\* collider_query: the paddles, walls and bricks that exist
ColliderQuery(pads, ws, bs) == [pads |-> pads, ws |-> ws, bs |-> bs]

\* ------------------------------------------------------------- collision
\* Aabb2d::closest_point: the point clamped into the box
ClosestPoint(box, p) ==
    [x |-> Clamp(p.x, box.x - box.hx, box.x + box.hx),
     y |-> Clamp(p.y, box.y - box.hy, box.y + box.hy)]

\* BoundingCircle::intersects with a circle that only touches the box taken
\* as not intersecting
Intersects_TouchingApart(center, radius, box) ==
    LET dx == center.x - Clamp(center.x, box.x - box.hx, box.x + box.hx)
        dy == center.y - Clamp(center.y, box.y - box.hy, box.y + box.hy)
    IN  /\ Abs(dy) <= radius
        /\ Abs(dx) <= radius
        /\ dx * dx + dy * dy < radius * radius

\* BoundingCircle::intersects(&Aabb2d): distance_squared(closest) <= radius^2
Intersects(center, radius, box) ==
    LET dx == center.x - Clamp(center.x, box.x - box.hx, box.x + box.hx)
        dy == center.y - Clamp(center.y, box.y - box.hy, box.y + box.hy)
    IN  /\ Abs(dy) <= radius
        /\ Abs(dx) <= radius
        /\ dx * dx + dy * dy <= radius * radius

\* ball_collision with `>=` for `>` in the choice of the axis
ball_collision_TiesHorizontal(center, radius, box) ==
    IF ~Intersects(center, radius, box) THEN "None"
    ELSE LET closest == ClosestPoint(box, center)
             ox == center.x - closest.x
             oy == center.y - closest.y
         IN  IF Abs(ox) >= Abs(oy)
             THEN (IF ox < 0 THEN "Left" ELSE "Right")
             ELSE (IF oy > 0 THEN "Top" ELSE "Bottom")

\* ball_collision with `>=` for `>` in the choice between Top and Bottom
ball_collision_ZeroIsTop(center, radius, box) ==
    IF ~Intersects(center, radius, box) THEN "None"
    ELSE LET closest == ClosestPoint(box, center)
             ox == center.x - closest.x
             oy == center.y - closest.y
         IN  IF Abs(ox) > Abs(oy)
             THEN (IF ox < 0 THEN "Left" ELSE "Right")
             ELSE (IF oy >= 0 THEN "Top" ELSE "Bottom")

\* ball_collision: "None", or the side of the box the ball hit
ball_collision(center, radius, box) ==
    IF ~Intersects(center, radius, box) THEN "None"
    ELSE LET closest == ClosestPoint(box, center)
             ox == center.x - closest.x
             oy == center.y - closest.y
         IN  IF Abs(ox) > Abs(oy)
             THEN (IF ox < 0 THEN "Left" ELSE "Right")
             ELSE (IF oy > 0 THEN "Top" ELSE "Bottom")

BallRadius == (BALL_DIAMETER * Unit) \div 2

\* the collision check_for_collisions computes for one collider
CollisionWith(ball, c) == ball_collision([x |-> ball.x, y |-> ball.y], BallRadius, c)

\* the bricks counted by `remaining_bricks`: collider_query still holds every
\* brick it held when the system started, because despawn commands are
\* deferred until the system has returned
RemainingBricks(query, despawned) == Cardinality(query.bs)

\* the reflection with the guards of Left and Right exchanged
Reflect_GuardsExchanged(ball, side) ==
    LET reflect_x == \/ side = "Left" /\ ball.vx < 0
                     \/ side = "Right" /\ ball.vx > 0
        reflect_y == \/ side = "Top" /\ ball.vy < 0
                     \/ side = "Bottom" /\ ball.vy > 0
    IN  [ball EXCEPT !.vx = IF reflect_x THEN 0 - ball.vx ELSE ball.vx,
                     !.vy = IF reflect_y THEN 0 - ball.vy ELSE ball.vy]

\* the reflection without its guards: the axis of the side always flips
Reflect_Unguarded(ball, side) ==
    [ball EXCEPT !.vx = IF side \in {"Left", "Right"} THEN 0 - ball.vx ELSE ball.vx,
                 !.vy = IF side \in {"Top", "Bottom"} THEN 0 - ball.vy ELSE ball.vy]

\* the guarded reflection at the end of the loop body
Reflect(ball, side) ==
    LET reflect_x == \/ side = "Left" /\ ball.vx > 0
                     \/ side = "Right" /\ ball.vx < 0
        reflect_y == \/ side = "Top" /\ ball.vy < 0
                     \/ side = "Bottom" /\ ball.vy > 0
    IN  [ball EXCEPT !.vx = IF reflect_x THEN 0 - ball.vx ELSE ball.vx,
                     !.vy = IF reflect_y THEN 0 - ball.vy ELSE ball.vy]

\* what the loop body has changed so far: the part of a run the claims observe
Snapshot(s) == [ball |-> s.ball, lives |-> s.lives, score |-> s.score,
                despawn |-> s.despawn, events |-> s.events, setApp |-> s.setApp]

\* HitBrick with the score lowered, not raised, by a destroyed brick
HitBrick_ScoreDown(s, c, query) ==
    IF ~c.brick THEN s
    ELSE LET s1 == [s EXCEPT !.despawn = s.despawn \cup {<<c.id[2], c.id[3]>>},
                             !.score = s.score - 1]
         IN  IF RemainingBricks(query, s1.despawn) = 0
             THEN [s1 EXCEPT !.setApp = "Win", !.returned = TRUE]
             ELSE s1

\* HitBrick without the despawn of the brick
HitBrick_NoDespawn(s, c, query) ==
    IF ~c.brick THEN s
    ELSE LET s1 == [s EXCEPT !.score = s.score + 1]
         IN  IF RemainingBricks(query, s1.despawn) = 0
             THEN [s1 EXCEPT !.setApp = "Win", !.returned = TRUE]
             ELSE s1

\* `if maybe_brick.is_some()`: despawn, score, and Win on the last brick
HitBrick(s, c, query) ==
    IF ~c.brick THEN s
    ELSE LET s1 == [s EXCEPT !.despawn = s.despawn \cup {<<c.id[2], c.id[3]>>},
                             !.score = s.score + 1]
         IN  IF RemainingBricks(query, s1.despawn) = 0
             THEN [s1 EXCEPT !.setApp = "Win", !.returned = TRUE]
             ELSE s1

\* HitDeadly with the reset velocity INITIAL_BALL_DIRECTION * BALL_SPEED,
\* the direction not normalized
HitDeadly_ResetNotNormalized(s, c) ==
    IF ~c.deadly THEN s
    ELSE IF s.lives = 0
         THEN [s EXCEPT !.events = Append(s.events, "GameOver"),
                        !.setApp = "GameOver", !.returned = TRUE]
         ELSE [s EXCEPT !.ball = [NewBall EXCEPT
                                    !.vx = INITIAL_BALL_DIRECTION.x * BALL_SPEED,
                                    !.vy = INITIAL_BALL_DIRECTION.y * BALL_SPEED],
                        !.lives = s.lives - 1,
                        !.events = Append(s.events, "LostLife")]

\* HitDeadly without the `**lives == 0` branch: every deadly collision
\* resets the ball and takes a life
HitDeadly_NoZeroCheck(s, c) ==
    IF ~c.deadly THEN s
    ELSE [s EXCEPT !.ball = NewBall,
                   !.lives = s.lives - 1,
                   !.events = Append(s.events, "LostLife")]

\* HitDeadly with the game ended one life early: `**lives <= 1`
HitDeadly_GameOverAtOne(s, c) ==
    IF ~c.deadly THEN s
    ELSE IF s.lives <= 1
         THEN [s EXCEPT !.events = Append(s.events, "GameOver"),
                        !.setApp = "GameOver", !.returned = TRUE]
         ELSE [s EXCEPT !.ball = NewBall,
                        !.lives = s.lives - 1,
                        !.events = Append(s.events, "LostLife")]

\* HitDeadly with the ball put back to its start before the `**lives == 0`
\* branch is taken
HitDeadly_ResetFirst(s, c) ==
    IF ~c.deadly THEN s
    ELSE IF s.lives = 0
         THEN [s EXCEPT !.ball = NewBall,
                        !.events = Append(s.events, "GameOver"),
                        !.setApp = "GameOver", !.returned = TRUE]
         ELSE [s EXCEPT !.ball = NewBall,
                        !.lives = s.lives - 1,
                        !.events = Append(s.events, "LostLife")]

\* `if maybe_deadly.is_some()`: GameOver at no lives, else reset and lose a life
HitDeadly(s, c) ==
    IF ~c.deadly THEN s
    ELSE IF s.lives = 0
         THEN [s EXCEPT !.events = Append(s.events, "GameOver"),
                        !.setApp = "GameOver", !.returned = TRUE]
         ELSE [s EXCEPT !.ball = NewBall,
                        !.lives = s.lives - 1,
                        !.events = Append(s.events, "LostLife")]

\* the loop body with the Collision event written after the brick and deadly
\* branches, which a return skips
ProcessCollision_EventAfterBranches(s, c, query) ==
    LET side == CollisionWith(s.ball, c)
        s1 == HitBrick(s, c, query)
        s2 == IF s1.returned THEN s1 ELSE HitDeadly(s1, c)
        s3 == IF s2.returned THEN s2
              ELSE [s2 EXCEPT !.events = Append(s2.events, "Collision"),
                              !.ball = Reflect(s2.ball, side)]
    IN  [s3 EXCEPT !.log = Append(s.log,
            [kind |-> c.kind, id |-> c.id, side |-> side, brick |-> c.brick,
             deadly |-> c.deadly, before |-> Snapshot(s), after |-> Snapshot(s3),
             returned |-> s3.returned])]

\* the loop body of check_for_collisions for a collider the ball collides with
ProcessCollision(s, c, query) ==
    LET side == CollisionWith(s.ball, c)
        s0 == [s EXCEPT !.events = Append(s.events, "Collision")]
        s1 == HitBrick(s0, c, query)
        s2 == IF s1.returned THEN s1 ELSE HitDeadly(s1, c)
        s3 == IF s2.returned THEN s2 ELSE [s2 EXCEPT !.ball = Reflect(s2.ball, side)]
    IN  [s3 EXCEPT !.log = Append(s.log,
            [kind |-> c.kind, id |-> c.id, side |-> side, brick |-> c.brick,
             deadly |-> c.deadly, before |-> Snapshot(s), after |-> Snapshot(s3),
             returned |-> s3.returned])]

\* the colliders of the query, not yet visited, that the ball collides with
Colliding(ball, query, visited) ==
    {PaddleCollider(i, query.pads[i]) :
        i \in {j \in DOMAIN query.pads :
                /\ <<0, j, 0>> \notin visited
                /\ CollisionWith(ball, PaddleCollider(j, query.pads[j])) # "None"}}
    \cup {WallCollider(i, query.ws[i]) :
        i \in {j \in DOMAIN query.ws :
                /\ <<1, j, 0>> \notin visited
                /\ CollisionWith(ball, WallCollider(j, query.ws[j])) # "None"}}
    \cup {BrickCollider(b) :
        b \in {k \in query.bs :
                /\ <<2, k[1], k[2]>> \notin visited
                /\ CollisionWith(ball, BrickCollider(k)) # "None"}}

\* the loop of check_for_collisions leaving after the first collision it
\* has processed
Iterate_FirstOnly(s, visited, query) ==
    LET hits == Colliding(s.ball, query, visited)
    IN  IF hits = {} THEN {s}
        ELSE {ProcessCollision(s, c, query) : c \in hits}

\* The loop over collider_query, whose iteration order the engine does not
\* fix: the set of results over every order.  A collider the ball does not
\* collide with when it is visited changes nothing, so only the order of the
\* colliding ones matters; a collider that collides only after the ball was
\* moved (the reset) may already have been visited (skip) or not.
RECURSIVE Iterate(_, _, _)
Iterate(s, visited, query) ==
    LET hits == Colliding(s.ball, query, visited)
    IN  IF hits = {} THEN {s}
        ELSE UNION {
            LET s2 == ProcessCollision(s, c, query)
                v2 == visited \cup {c.id}
                fresh == IF s2.ball.x = s.ball.x /\ s2.ball.y = s.ball.y THEN {}
                         ELSE {f.id : f \in Colliding(s2.ball, query, v2) \ hits}
            IN  IF s2.returned THEN {s2}
                ELSE UNION {Iterate(s2, v2 \cup skip, query) : skip \in SUBSET fresh}
            : c \in hits}

\* check_for_collisions on one ball: every result the iteration order allows
check_for_collisions(ball, l, sc, query) ==
    Iterate([ball |-> ball, lives |-> l, score |-> sc, despawn |-> {},
             events |-> <<>>, setApp |-> "None", returned |-> FALSE, log |-> <<>>],
            {}, query)

\* apply_velocity on one entity
apply_velocity(ball) ==
    [ball EXCEPT !.x = ball.x + PerTick(ball.vx), !.y = ball.y + PerTick(ball.vy)]

Direction(ks) == (IF "ArrowRight" \in ks THEN 1 ELSE 0) - (IF "ArrowLeft" \in ks THEN 1 ELSE 0)

\* move_paddle without the clamp to the bounds
move_paddle_NoClamp(px, ks) == px + Direction(ks) * PerTick(PADDLE_SPEED * Unit)

\* move_paddle
move_paddle(px, ks) ==
    LET new_paddle_position == px + Direction(ks) * PerTick(PADDLE_SPEED * Unit)
        left_bound == LEFT_WALL * Unit + (WALL_THICKNESS * Unit) \div 2
                        + (PADDLE_SIZE_X * Unit) \div 2 + PADDLE_PADDING * Unit
        right_bound == RIGHT_WALL * Unit - (WALL_THICKNESS * Unit) \div 2
                        - (PADDLE_SIZE_X * Unit) \div 2 - PADDLE_PADDING * Unit
    IN  Clamp(new_paddle_position, left_bound, right_bound)

\* ------------------------------------------------------------------ state
VARIABLES
    appState,    \* State<AppState>
    nextApp,     \* NextState<AppState>: "None" or the pending state
    gameState,   \* State<GameState> of game.rs
    nextGame,    \* NextState<GameState>
    menuState,   \* State<MenuState>
    nextMenu,    \* NextState<MenuState>
    exited,      \* AppExit has been written
    balls,       \* the entities with Ball: sequence of [x, y, vx, vy]
    paddles,     \* the entities with Paddle: sequence of translation.x
    walls,       \* the entities with Wall: sequence of wall locations
    bricks,      \* the entities with Brick: set of <<row, column>>
    overlay,     \* number of countdown overlays (OnStartingScreen, CountdownUI)
    gameUi,      \* number of scoreboard and lives UI nodes
    lives,       \* Lives
    score,       \* Score
    timer,       \* CountdownTimer: [present, elapsed, finished, just]
    text,        \* text of the CountdownUI node
    events,      \* GameEvent values play_sounds has not read yet
    dispatched,  \* the events play_sounds read in its latest run
    keys,        \* ButtonInput: the keys pressed this frame
    just,        \* ButtonInput: the keys just pressed this frame
    pc,          \* place in the frame: "frame" or "fixed"
    ran,         \* FixedUpdate runs of this frame so far; at Update, Time::delta
    ticks,       \* simulation ticks run so far
    freshTimer,  \* countdown_setup has run in this game session
    shown,       \* the texts the CountdownUI node has shown since
                 \* countdown_setup, in order, each change of text once
    last,        \* the latest FixedUpdate run of this frame, as the claims
                 \* observe it: whether the chain ran, the bricks before it,
                 \* and one record per collision it processed
    probe        \* the bench of the function specifications: the arguments
                 \* a function is applied to and its results; NoProbe while
                 \* the application runs

vars == <<appState, nextApp, gameState, nextGame, menuState, nextMenu, exited,
          balls, paddles, walls, bricks, overlay, gameUi, lives, score, timer,
          text, events, dispatched, keys, just, pc, ran,
          ticks, freshTimer, shown, last, probe>>

\* the state of the running application
world == <<appState, nextApp, gameState, nextGame, menuState, nextMenu, exited,
           balls, paddles, walls, bricks, overlay, gameUi, lives, score, timer,
           text, events, dispatched, keys, just, pc, ran,
           ticks, freshTimer, shown, last>>

NoProbe == [fn |-> "none"]

Keys == {"Escape", "ArrowLeft", "ArrowRight"}

\* AppState, as the screens use it
AppStates == {"Menu", "Game", "GameOver", "Win"}

\* the screen plugins the application installs
Plugins == {"menu_plugin", "game_plugin", "gameover_plugin", "win_plugin"}

NoTimer == [present |-> FALSE, elapsed |-> 0, finished |-> FALSE, just |-> FALSE]

NoRun == [ran |-> FALSE, bricks |-> {}, steps |-> <<>>]

\* the state after App::new()...run() has built the app and run Startup:
\* the resources of game_plugin, the default states, and menu_setup's request
AppStart ==
    /\ appState = "Menu" /\ nextApp = "None"
    /\ gameState = "Disabled" /\ nextGame = "None"
    /\ menuState = "Disabled" /\ nextMenu = "Main"
    /\ exited = FALSE
    /\ balls = <<>> /\ paddles = <<>> /\ walls = <<>> /\ bricks = {}
    /\ overlay = 0 /\ gameUi = 0
    /\ lives = INITIAL_LIVES /\ score = 0
    /\ timer = NoTimer /\ text = ""
    /\ events = <<>> /\ dispatched = <<>>
    /\ keys = {} /\ just = {}
    /\ pc = "frame" /\ ran = 0
    /\ ticks = 0 /\ freshTimer = FALSE
    /\ shown = <<>>
    /\ last = NoRun

Init == AppStart /\ probe = NoProbe

\* ------------------------------------------------------- state transitions
\* a pending state that differs from the current one runs OnExit and OnEnter
Changes(cur, next) == next # "None" /\ next # cur

After(cur, next) == IF next = "None" THEN cur ELSE next

\* game_setup without `**score = 0`
game_setup_KeepScore(old) ==
    [lives |-> INITIAL_LIVES,
     score |-> old.score,
     paddles |-> Append(old.paddles, 0),
     balls |-> Append(old.balls, NewBall),
     walls |-> old.walls \o NewWalls,
     bricks |-> old.bricks \cup BrickGrid,
     gameUi |-> old.gameUi + 2,
     nextGame |-> "Starting"]

\* game_setup without `**lives = INITIAL_LIVES`
game_setup_KeepLives(old) ==
    [lives |-> old.lives,
     score |-> 0,
     paddles |-> Append(old.paddles, 0),
     balls |-> Append(old.balls, NewBall),
     walls |-> old.walls \o NewWalls,
     bricks |-> old.bricks \cup BrickGrid,
     gameUi |-> old.gameUi + 2,
     nextGame |-> "Starting"]

\* game_setup: the resources and entities after it, from those before it
game_setup(old) ==
    [lives |-> INITIAL_LIVES,
     score |-> 0,
     paddles |-> Append(old.paddles, 0),
     balls |-> Append(old.balls, NewBall),
     walls |-> old.walls \o NewWalls,
     bricks |-> old.bricks \cup BrickGrid,
     gameUi |-> old.gameUi + 2,
     nextGame |-> "Starting"]

\* countdown_setup: the timer, the overlay and its text after it
countdown_setup(old) ==
    [timer |-> [present |-> TRUE, elapsed |-> 0, finished |-> FALSE, just |-> FALSE],
     overlay |-> old.overlay + 1,
     text |-> ToString(STARTING_GAME_DURATION_SECS)]

\* despawn_screen::<OnGameScreen> with the ball and the paddle left out, as
\* if they were spawned without OnGameScreen
despawn_game_screen_KeepBallAndPaddle(old) ==
    [old EXCEPT !.walls = <<>>, !.bricks = {},
                !.gameUi = 0, !.overlay = 0, !.text = ""]

\* despawn_screen::<OnGameScreen> with the scoreboard and lives UI left out,
\* as if they were spawned without OnGameScreen
despawn_game_screen_KeepUi(old) ==
    [old EXCEPT !.paddles = <<>>, !.balls = <<>>, !.walls = <<>>, !.bricks = {},
                !.overlay = 0, !.text = ""]

\* despawn_screen::<OnGameScreen> (OnExit(AppState::Game)): every entity of
\* the game screen goes, the overlay with its children included
despawn_game_screen(old) ==
    [old EXCEPT !.paddles = <<>>, !.balls = <<>>, !.walls = <<>>, !.bricks = {},
                !.gameUi = 0, !.overlay = 0, !.text = ""]

\* The StateTransition schedule: every pending state that differs from the
\* current one is applied; the exit schedules run before the enter schedules;
\* a state requested by an enter schedule is pending until the next frame.
StateTransition ==
    LET exitGame == Changes(appState, nextApp) /\ appState = "Game"
        enterGame == Changes(appState, nextApp) /\ nextApp = "Game"
        enterMenu == Changes(appState, nextApp) /\ nextApp = "Menu"
        enterStarting == Changes(gameState, nextGame) /\ nextGame = "Starting"
        w0 == [lives |-> lives, score |-> score, paddles |-> paddles, balls |-> balls,
               walls |-> walls, bricks |-> bricks, gameUi |-> gameUi,
               nextGame |-> "None", timer |-> timer, overlay |-> overlay, text |-> text]
        w1 == IF exitGame THEN despawn_game_screen(w0) ELSE w0
        g == game_setup(w1)
        w2 == IF enterGame
              THEN [w1 EXCEPT !.lives = g.lives, !.score = g.score,
                              !.paddles = g.paddles, !.balls = g.balls,
                              !.walls = g.walls, !.bricks = g.bricks,
                              !.gameUi = g.gameUi, !.nextGame = g.nextGame]
              ELSE w1
        c == countdown_setup(w2)
        w3 == IF enterStarting
              THEN [w2 EXCEPT !.timer = c.timer, !.overlay = c.overlay, !.text = c.text]
              ELSE w2
    IN  /\ appState' = After(appState, nextApp)
        /\ gameState' = After(gameState, nextGame)
        /\ menuState' = After(menuState, nextMenu)
        /\ nextApp' = "None"
        /\ nextGame' = w3.nextGame
        /\ nextMenu' = IF enterMenu THEN "Main" ELSE "None"
        /\ lives' = w3.lives
        /\ score' = w3.score
        /\ paddles' = w3.paddles
        /\ balls' = w3.balls
        /\ walls' = w3.walls
        /\ bricks' = w3.bricks
        /\ gameUi' = w3.gameUi
        /\ overlay' = w3.overlay
        /\ timer' = w3.timer
        /\ text' = w3.text
        /\ freshTimer' = IF enterStarting THEN TRUE
                         ELSE IF enterGame THEN FALSE ELSE freshTimer
        /\ shown' = IF enterStarting THEN <<w3.text>>
                    ELSE IF exitGame THEN <<>> ELSE shown

\* the key combinations a frame's input is drawn from: during play the
\* player holds at most one key
KeyChoices(app) ==
    IF app = "Game" THEN {{}, {"ArrowLeft"}, {"ArrowRight"}, {"Escape"}}
    ELSE SUBSET Keys

\* the start of a frame: the input of this frame and the StateTransition
\* schedule; the frame's delta pays for the FixedUpdate runs that follow
FrameStart(ks) ==
    /\ pc = "frame" /\ ~exited
    /\ StateTransition
    /\ ks \in KeyChoices(appState')
    /\ keys' = ks
    /\ just' = IF appState' \in {"GameOver", "Win"} THEN ks \ keys ELSE {}
    /\ ran' = 0
    /\ pc' = "fixed"
    /\ last' = NoRun
    /\ UNCHANGED <<exited, events, dispatched, ticks, probe>>

\* ------------------------------------------------------------ FixedUpdate
\* the run condition without .run_if(in_state(GameState::Playing))
RunCondition_AppStateOnly == appState = "Game"

\* .run_if(in_state(AppState::Game)).run_if(in_state(GameState::Playing))
RunCondition == appState = "Game" /\ gameState = "Playing"

\* FixedTick with check_for_collisions ahead of apply_velocity in the chain
FixedTick_CollideBeforeMove ==
    /\ pc = "fixed" /\ ran < MaxFrameDelta
    /\ ran' = ran + 1
    /\ IF RunCondition
       THEN /\ ticks < MaxTicks
            /\ ticks' = ticks + 1
            /\ LET moved == balls
                   pads == IF Len(paddles) = 1
                           THEN <<move_paddle(paddles[1], keys)>> ELSE paddles
                   query == ColliderQuery(pads, walls, bricks)
               IN  /\ paddles' = pads
                   /\ IF Len(moved) = 1
                      THEN \E r \in check_for_collisions(moved[1], lives, score, query) :
                            /\ balls' = <<apply_velocity(r.ball)>>
                            /\ lives' = r.lives
                            /\ score' = r.score
                            /\ bricks' = bricks \ r.despawn
                            /\ nextApp' = After(nextApp, r.setApp)
                            /\ dispatched' = events \o r.events
                            /\ last' = [ran |-> TRUE, bricks |-> bricks, steps |-> r.log]
                      ELSE /\ balls' = [i \in DOMAIN balls |-> apply_velocity(balls[i])]
                           /\ dispatched' = events
                           /\ last' = [ran |-> TRUE, bricks |-> bricks, steps |-> <<>>]
                           /\ UNCHANGED <<lives, score, bricks, nextApp>>
                   /\ events' = <<>>
       ELSE /\ last' = NoRun
            /\ UNCHANGED <<ticks, paddles, balls, lives, score, bricks, nextApp,
                           dispatched, events>>
    /\ UNCHANGED <<appState, gameState, nextGame, menuState, nextMenu, exited,
                   walls, overlay, gameUi, timer, text, keys, just, pc,
                   freshTimer, shown, probe>>

\* FixedTick with play_sounds left out of a tick in which
\* check_for_collisions returned early
FixedTick_NoSoundsAfterReturn ==
    /\ pc = "fixed" /\ ran < MaxFrameDelta
    /\ ran' = ran + 1
    /\ IF RunCondition
       THEN /\ ticks < MaxTicks
            /\ ticks' = ticks + 1
            /\ LET moved == [i \in DOMAIN balls |-> apply_velocity(balls[i])]
                   pads == IF Len(paddles) = 1
                           THEN <<move_paddle(paddles[1], keys)>> ELSE paddles
                   query == ColliderQuery(pads, walls, bricks)
               IN  /\ paddles' = pads
                   /\ IF Len(moved) = 1
                      THEN \E r \in check_for_collisions(moved[1], lives, score, query) :
                            /\ balls' = <<r.ball>>
                            /\ lives' = r.lives
                            /\ score' = r.score
                            /\ bricks' = bricks \ r.despawn
                            /\ nextApp' = After(nextApp, r.setApp)
                            /\ dispatched' = IF r.returned THEN events
                                              ELSE events \o r.events
                            /\ events' = IF r.returned THEN r.events ELSE <<>>
                            /\ last' = [ran |-> TRUE, bricks |-> bricks, steps |-> r.log]
                      ELSE /\ balls' = moved
                           /\ dispatched' = events
                           /\ events' = <<>>
                           /\ last' = [ran |-> TRUE, bricks |-> bricks, steps |-> <<>>]
                           /\ UNCHANGED <<lives, score, bricks, nextApp>>
       ELSE /\ last' = NoRun
            /\ UNCHANGED <<ticks, paddles, balls, lives, score, bricks, nextApp,
                           dispatched, events>>
    /\ UNCHANGED <<appState, gameState, nextGame, menuState, nextMenu, exited,
                   walls, overlay, gameUi, timer, text, keys, just, pc,
                   freshTimer, shown, probe>>

\* One run of the FixedUpdate schedule.  Under the run condition the chain
\* apply_velocity, move_paddle, check_for_collisions, play_sounds runs, each
\* system only if its Single parameter matches exactly one entity; the
\* commands of check_for_collisions are applied when it has returned.
FixedTick ==
    /\ pc = "fixed" /\ ran < MaxFrameDelta
    /\ ran' = ran + 1
    /\ IF RunCondition
       THEN /\ ticks < MaxTicks
            /\ ticks' = ticks + 1
            /\ LET moved == [i \in DOMAIN balls |-> apply_velocity(balls[i])]
                   pads == IF Len(paddles) = 1
                           THEN <<move_paddle(paddles[1], keys)>> ELSE paddles
                   query == ColliderQuery(pads, walls, bricks)
               IN  /\ paddles' = pads
                   /\ IF Len(moved) = 1
                      THEN \E r \in check_for_collisions(moved[1], lives, score, query) :
                            /\ balls' = <<r.ball>>
                            /\ lives' = r.lives
                            /\ score' = r.score
                            /\ bricks' = bricks \ r.despawn
                            /\ nextApp' = After(nextApp, r.setApp)
                            /\ dispatched' = events \o r.events
                            /\ last' = [ran |-> TRUE, bricks |-> bricks, steps |-> r.log]
                      ELSE /\ balls' = moved
                           /\ dispatched' = events
                           /\ last' = [ran |-> TRUE, bricks |-> bricks, steps |-> <<>>]
                           /\ UNCHANGED <<lives, score, bricks, nextApp>>
                   /\ events' = <<>>
       ELSE /\ last' = NoRun
            /\ UNCHANGED <<ticks, paddles, balls, lives, score, bricks, nextApp,
                           dispatched, events>>
    /\ UNCHANGED <<appState, gameState, nextGame, menuState, nextMenu, exited,
                   walls, overlay, gameUi, timer, text, keys, just, pc,
                   freshTimer, shown, probe>>

\* ----------------------------------------------------------------- Update
\* the buttons of the menu screen that is spawned
MenuButtons ==
    CASE menuState = "Main" -> {"Play", "Settings", "Quit"}
      [] menuState = "Settings" -> {"SettingsSound", "BackToMainMenu"}
      [] menuState = "SettingsSound" -> {"BackToSettings"}
      [] OTHER -> {}

\* menu_action: the pending <<AppState, MenuState, exit>> after a pressed button
menu_action(click) ==
    CASE click = "Quit" -> <<nextApp, nextMenu, TRUE>>
      [] click = "Play" -> <<"Game", "Disabled", exited>>
      [] click = "Settings" -> <<nextApp, "Settings", exited>>
      [] click = "SettingsSound" -> <<nextApp, "SettingsSound", exited>>
      [] click = "BackToMainMenu" -> <<nextApp, "Main", exited>>
      [] click = "BackToSettings" -> <<nextApp, "Settings", exited>>
      [] OTHER -> <<nextApp, nextMenu, exited>>

\* process_commands of gameover.rs: the AppState it requests, or "None"
gameover_process_commands(pressed) ==
    IF "Escape" \in pressed THEN "Menu"
    ELSE IF Cardinality(pressed) > 0 THEN "Game" ELSE "None"

\* process_commands of win.rs: the AppState it requests, or "None"
win_process_commands(just_pressed) ==
    IF "Escape" \in just_pressed THEN "Menu"
    ELSE IF Cardinality(just_pressed) > 0 THEN "Game" ELSE "None"

\* win_plugin adds its process_commands with run_if(in_state(AppState::GameOver))
WinCommandsRunIn == "GameOver"

\* ceil(a / b) for b > 0
CeilDiv(a, b) == 0 - ((0 - a) \div b)

\* Timer::tick of a TimerMode::Once timer
TimerTick(t, d) ==
    IF t.finished THEN [t EXCEPT !.just = FALSE]
    ELSE LET duration == Secs(STARTING_GAME_DURATION_SECS + GO_DISPLAY_DURATION_SECS)
             e == t.elapsed + d
         IN  IF e >= duration
             THEN [t EXCEPT !.elapsed = duration, !.finished = TRUE, !.just = TRUE]
             ELSE [t EXCEPT !.elapsed = e, !.just = FALSE]

\* Timer::remaining_secs, in time units
Remaining(t) == Secs(STARTING_GAME_DURATION_SECS + GO_DISPLAY_DURATION_SECS) - t.elapsed

\* the text update_countdown writes to the CountdownUI node
CountdownText(t) ==
    LET secs == CeilDiv(Remaining(t) - Secs(GO_DISPLAY_DURATION_SECS), Secs(1))
    IN  IF secs = 0 THEN "GO!" ELSE ToString(secs)

\* update_countdown with `>` for `>=` in the test that requests Playing
update_countdown_StrictlyAfter ==
    IF gameState # "Disabled" /\ overlay = 1 /\ timer.present
    THEN IF timer.just
         THEN /\ overlay' = 0
              /\ UNCHANGED <<timer, text, nextGame>>
         ELSE /\ timer' = TimerTick(timer, ran)
              /\ nextGame' = IF timer'.elapsed > Secs(STARTING_GAME_DURATION_SECS)
                             THEN "Playing" ELSE nextGame
              /\ text' = CountdownText(timer')
              /\ UNCHANGED overlay
    ELSE UNCHANGED <<overlay, timer, text, nextGame>>

\* update_countdown with the overlay despawned as soon as Playing is requested
update_countdown_DespawnAtPlaying ==
    IF gameState # "Disabled" /\ overlay = 1 /\ timer.present
    THEN IF timer.just
         THEN /\ overlay' = 0
              /\ UNCHANGED <<timer, text, nextGame>>
         ELSE /\ timer' = TimerTick(timer, ran)
              /\ nextGame' = IF timer'.elapsed >= Secs(STARTING_GAME_DURATION_SECS)
                             THEN "Playing" ELSE nextGame
              /\ text' = CountdownText(timer')
              /\ overlay' = IF timer'.elapsed >= Secs(STARTING_GAME_DURATION_SECS)
                            THEN 0 ELSE overlay
    ELSE UNCHANGED <<overlay, timer, text, nextGame>>

\* update_countdown runs when GameState is not Disabled and exactly one
\* CountdownUI entity exists (Single), and acts when the timer resource exists
update_countdown ==
    IF gameState # "Disabled" /\ overlay = 1 /\ timer.present
    THEN IF timer.just
         THEN /\ overlay' = 0
              /\ UNCHANGED <<timer, text, nextGame>>
         ELSE /\ timer' = TimerTick(timer, ran)
              /\ nextGame' = IF timer'.elapsed >= Secs(STARTING_GAME_DURATION_SECS)
                             THEN "Playing" ELSE nextGame
              /\ text' = CountdownText(timer')
              /\ UNCHANGED overlay
    ELSE UNCHANGED <<overlay, timer, text, nextGame>>

\* One run of the Update schedule, which ends the frame: menu_action on the Menu screen, the two
\* process_commands systems (in either order) on the GameOver screen, and
\* update_countdown.
Update(click, first) ==
    /\ pc = "fixed"
    /\ first = "win" => appState = "GameOver"
    /\ pc' = "frame"
    /\ ran' = 0
    /\ \/ /\ appState = "Menu"
          /\ click \in MenuButtons \cup {"none"}
          /\ nextApp' = menu_action(click)[1]
          /\ nextMenu' = menu_action(click)[2]
          /\ exited' = menu_action(click)[3]
       \/ /\ appState # "Menu"
          /\ click = "none"
          /\ LET a == IF "gameover_plugin" \in Plugins /\ appState = "GameOver"
                      THEN gameover_process_commands(keys) ELSE "None"
                 b == IF "win_plugin" \in Plugins /\ appState = WinCommandsRunIn
                      THEN win_process_commands(just) ELSE "None"
             IN  nextApp' = IF first = "gameover"
                            THEN After(After(nextApp, a), b)
                            ELSE After(After(nextApp, b), a)
          /\ UNCHANGED <<nextMenu, exited>>
    /\ update_countdown
    /\ shown' = IF text' # text THEN Append(shown, text') ELSE shown
    /\ UNCHANGED <<appState, gameState, menuState, balls, paddles, walls, bricks,
                   gameUi, lives, score, events, dispatched, keys, just,
                   ticks, freshTimer, last, probe>>

Clicks == {"none", "Play", "Settings", "Quit", "SettingsSound", "BackToMainMenu",
           "BackToSettings"}

Next ==
    \/ \E ks \in SUBSET Keys : FrameStart(ks)
    \/ FixedTick
    \/ \E click \in Clicks, first \in {"gameover", "win"} : Update(click, first)

Spec == Init /\ [][Next]_vars

\* ------------------------------------------------- late in a game session
\* The bricks still standing late in a session: the last one, or the last two.
EndgameBricks == {{<<0, 4>>}, {<<0, 4>>, <<6, 7>>}}

\* the texts a countdown has shown when it is over
FinishedCountdown ==
    [i \in 1 .. STARTING_GAME_DURATION_SECS |->
        ToString(STARTING_GAME_DURATION_SECS + 1 - i)]
    \o <<"GO!", ToString(0 - GO_DISPLAY_DURATION_SECS)>>

\* A session late in play, just after a life was lost: the countdown is over,
\* the ball has been put back to its starting position by the deadly branch
\* and reflected off the bottom wall, Score counts the bricks destroyed.
InitEndgame ==
    /\ appState = "Game" /\ nextApp = "None"
    /\ gameState = "Playing" /\ nextGame = "None"
    /\ menuState = "Disabled" /\ nextMenu = "None"
    /\ exited = FALSE
    /\ balls = <<Reflect(NewBall, "Top")>>
    /\ paddles = <<0>>
    /\ walls = NewWalls
    /\ bricks \in EndgameBricks
    /\ overlay = 0 /\ gameUi = 2
    /\ lives \in 0 .. INITIAL_LIVES - 1
    /\ score = Cardinality(BrickGrid) - Cardinality(bricks)
    /\ timer = [present |-> TRUE, finished |-> TRUE, just |-> TRUE,
                elapsed |-> Secs(STARTING_GAME_DURATION_SECS + GO_DISPLAY_DURATION_SECS)]
    /\ text = CountdownText(timer)
    /\ events = <<>> /\ dispatched = <<>>
    /\ keys = {} /\ just = {}
    /\ pc = "frame" /\ ran = 0
    /\ ticks = 0
    /\ freshTimer = TRUE
    /\ shown = FinishedCountdown
    /\ last = NoRun
    /\ probe = NoProbe

SpecEndgame == InitEndgame /\ [][Next]_vars

\* --------------------------------------------------------- the Win screen
\* The end of the frame whose tick destroyed the last brick, with the
\* transition that `commands.set_state(AppState::Win)` issues pending.  The
\* code as it stands never executes that line (see C2), so the screens
\* behind it are examined from here.
InitWin ==
    /\ appState = "Game" /\ nextApp = "Win"
    /\ gameState = "Playing" /\ nextGame = "None"
    /\ menuState = "Disabled" /\ nextMenu = "None"
    /\ exited = FALSE
    /\ \E b \in {BrickCollider(<<0, 4>>)} :
        balls = <<[x |-> b.x, y |-> b.y - b.hy - BallRadius \div 2,
                   vx |-> StartVelocity.x, vy |-> StartVelocity.y]>>
    /\ paddles = <<0>>
    /\ walls = NewWalls
    /\ bricks = {}
    /\ overlay = 0 /\ gameUi = 2
    /\ lives \in 0 .. INITIAL_LIVES
    /\ score = Cardinality(BrickGrid)
    /\ timer = [present |-> TRUE, finished |-> TRUE, just |-> TRUE,
                elapsed |-> Secs(STARTING_GAME_DURATION_SECS + GO_DISPLAY_DURATION_SECS)]
    /\ text = CountdownText(timer)
    /\ events = <<>> /\ dispatched = <<"Collision">>
    /\ keys \in KeyChoices("Game") /\ just = {}
    /\ pc = "frame" /\ ran = 0
    /\ ticks = 0
    /\ freshTimer = TRUE
    /\ shown = FinishedCountdown
    /\ last = NoRun
    /\ probe = NoProbe

SpecWin == InitWin /\ [][Next]_vars

\* ------------------------------------------------------- in mid session
\* A session in play, one tick before the ball reaches the bottom row of
\* bricks under the gap between two of them.  Every tick moves the ball by
\* one PerTick step on each axis, from BALL_STARTING_POSITION, whatever it
\* bounces off: the ball is 14 steps right of and 4 steps above that
\* position, rising to the right.
InitVolley ==
    /\ appState = "Game" /\ nextApp = "None"
    /\ gameState = "Playing" /\ nextGame = "None"
    /\ menuState = "Disabled" /\ nextMenu = "None"
    /\ exited = FALSE
    /\ balls = <<[x |-> BALL_STARTING_POSITION.x + 14 * PerTick(Abs(StartVelocity.x)),
                  y |-> BALL_STARTING_POSITION.y + 4 * PerTick(Abs(StartVelocity.y)),
                  vx |-> Abs(StartVelocity.x), vy |-> Abs(StartVelocity.y)]>>
    /\ paddles = <<0>>
    /\ walls = NewWalls
    /\ bricks \in {BrickGrid, {<<0, 5>>, <<0, 6>>}}
    /\ overlay = 0 /\ gameUi = 2
    /\ lives \in {0, INITIAL_LIVES}
    /\ score = Cardinality(BrickGrid) - Cardinality(bricks)
    /\ timer = [present |-> TRUE, finished |-> TRUE, just |-> TRUE,
                elapsed |-> Secs(STARTING_GAME_DURATION_SECS + GO_DISPLAY_DURATION_SECS)]
    /\ text = CountdownText(timer)
    /\ events = <<>> /\ dispatched = <<>>
    /\ keys = {} /\ just = {}
    /\ pc = "frame" /\ ran = 0
    /\ ticks = 0
    /\ freshTimer = TRUE
    /\ shown = FinishedCountdown
    /\ last = NoRun
    /\ probe = NoProbe

SpecVolley == InitVolley /\ [][Next]_vars

\* ------------------------------------------- ball_collision on its own
\* largest radius of a circle ball_collision is applied to
MaxRadius == 3
\* largest half extent of a box ball_collision is applied to
MaxHalf == 2

\* the circles and boxes ball_collision is applied to: every box of the
\* sizes up to MaxHalf about two centres, every radius up to MaxRadius, and
\* every circle centre from inside the box to clear of it on all sides
BallCollisionInputs ==
    {[fn |-> "ball_collision", done |-> FALSE, out |-> "None",
      center |-> [x |-> cx, y |-> cy], radius |-> r,
      box |-> [x |-> bx, y |-> by, hx |-> hx, hy |-> hy]] :
        cx \in 0 - (MaxHalf + MaxRadius + 1) .. MaxHalf + MaxRadius + 2,
        cy \in 0 - (MaxHalf + MaxRadius + 3) .. MaxHalf + MaxRadius + 1,
        r \in 1 .. MaxRadius,
        bx \in {0, 1}, by \in {0, 0 - 2},
        hx \in 1 .. MaxHalf, hy \in 1 .. MaxHalf}

InitBallCollision == AppStart /\ probe \in BallCollisionInputs

\* the call of ball_collision in check_for_collisions
ApplyBallCollision ==
    /\ probe.fn = "ball_collision" /\ ~probe.done
    /\ probe' = [probe EXCEPT !.done = TRUE,
                              !.out = ball_collision(probe.center, probe.radius,
                                                     probe.box)]
    /\ UNCHANGED world

NextBallCollision == ApplyBallCollision

SpecBallCollision == InitBallCollision /\ [][NextBallCollision]_vars

\* --------------------------------------------- the reflection on its own
\* largest velocity component the reflection is applied to
MaxSpeed == 2
\* the most collisions of one tick the reflection is applied for
MaxSameSide == 2

\* every velocity up to MaxSpeed on each axis, with every side
ReflectInputs ==
    {[fn |-> "Reflect", side |-> sd, trace |-> <<[vx |-> vx, vy |-> vy]>>] :
        sd \in {"Left", "Right", "Top", "Bottom"},
        vx \in 0 - MaxSpeed .. MaxSpeed, vy \in 0 - MaxSpeed .. MaxSpeed}

InitReflect == AppStart /\ probe \in ReflectInputs

\* the reflection block of the loop body, run for one more collider that
\* reports the same side
ApplyReflect ==
    /\ probe.fn = "Reflect" /\ Len(probe.trace) <= MaxSameSide
    /\ probe' = [probe EXCEPT !.trace =
                    Append(@, Reflect(@[Len(@)], probe.side))]
    /\ UNCHANGED world

NextReflect == ApplyReflect

SpecReflect == InitReflect /\ [][NextReflect]_vars

\* ------------------------------------------------------------ properties
\* the values the states take
TypeOK ==
    /\ appState \in AppStates /\ nextApp \in AppStates \cup {"None"}
    /\ gameState \in {"Disabled", "Starting", "Playing"}
    /\ nextGame \in {"None", "Starting", "Playing"}
    /\ menuState \in {"Disabled", "Main", "Settings", "SettingsSound"}
    /\ pc \in {"frame", "fixed"} /\ ran \in 0 .. MaxFrameDelta
    /\ score \in 0 .. Cardinality(BrickGrid) /\ ticks \in 0 .. MaxTicks
    /\ bricks \subseteq BrickGrid

\* the collisions check_for_collisions processed in the latest tick
Steps == {last.steps[i] : i \in DOMAIN last.steps}

\* C1: Lives is never negative, and a collision with the Deadly wall that
\* check_for_collisions processes while Lives = 0 issues the transition to
\* GameOver and leaves Lives at 0.
C1_LivesNeverNegative ==
    /\ lives >= 0
    /\ \A st \in Steps :
        (st.deadly /\ st.before.lives = 0) =>
            /\ st.after.setApp = "GameOver"
            /\ nextApp = "GameOver"
            /\ st.after.lives = 0
            /\ lives = 0

\* a tick has processed a deadly collision at Lives = 0
C1_Witness ==
    \E st \in Steps : st.deadly /\ st.before.lives = 0 /\ lives = 0 /\ pc = "fixed"

\* C2: when exactly one brick remains and the ball collides with it in a
\* tick, that tick raises Score by 1, destroys the brick and issues the
\* transition of AppState to Win.
C2_LastBrickWins ==
    \A st \in Steps :
        (st.brick /\ Cardinality(last.bricks) = 1) =>
            /\ st.after.score = st.before.score + 1
            /\ score = st.before.score + 1
            /\ bricks = {}
            /\ st.after.setApp = "Win"
            /\ nextApp = "Win"

\* a tick in which the ball collides with a brick and with the Deadly wall:
\* the case of C3
BrickAndDeadlyInOneTick ==
    /\ \E st \in Steps : st.brick
    /\ \E st \in Steps : st.deadly

\* the ball never touches a brick and the Deadly wall in one tick
NoBrickAndDeadlyInOneTick == ~BrickAndDeadlyInOneTick

\* C4: when the ball collides with the Deadly wall while Lives >= 1, at the
\* end of the tick Lives is one less, AppState is still Game, LostLife has
\* been emitted, and the ball is at BALL_STARTING_POSITION with the starting
\* velocity (x positive, y negative).
C4_LifeLostResetsBall ==
    \A st \in Steps :
        (st.deadly /\ st.before.lives >= 1) =>
            /\ lives = st.before.lives - 1
            /\ appState = "Game" /\ nextApp = "None"
            /\ \E k \in DOMAIN dispatched : dispatched[k] = "LostLife"
            /\ Len(balls) = 1
            /\ balls[1].x = BALL_STARTING_POSITION.x
            /\ balls[1].y = BALL_STARTING_POSITION.y
            /\ balls[1].vx = StartVelocity.x /\ balls[1].vx > 0
            /\ balls[1].vy = StartVelocity.y /\ balls[1].vy < 0

\* what a deadly collision processed at Lives = 0 does
GameOverStep ==
    \A st \in Steps :
        (st.deadly /\ st.before.lives = 0) =>
            /\ st.after.events = st.before.events \o <<"Collision", "GameOver">>
            /\ \E k \in DOMAIN dispatched : dispatched[k] = "GameOver"
            /\ st.after.setApp = "GameOver"
            /\ nextApp = "GameOver"
            /\ st.after.ball = st.before.ball
            /\ st.after.lives = st.before.lives
            /\ st.after.score = st.before.score
            /\ st.returned

\* C5: a collision with the Deadly wall while Lives = 0 emits GameOver and
\* issues the transition to GameOver, which the next frame applies, and it
\* changes neither the ball's position or velocity, nor Lives, nor Score.
C5_GameOverLeavesBall ==
    /\ []GameOverStep
    /\ [][(nextApp = "GameOver" /\ pc = "frame") => appState' = "GameOver"]_vars

\* the frame of a tick that processed a deadly collision at Lives = 0 is over
C5_Witness ==
    /\ \E st \in Steps : st.deadly /\ st.before.lives = 0 /\ st.before.score > 0
    /\ nextApp = "GameOver" /\ pc = "frame"

\* C6: whenever AppState is not Game, the game sub-state is Disabled.
C6_DisabledOutsideGame == appState # "Game" => gameState = "Disabled"

C8_PhasesOnlyWhilePlaying ==
    [][ran' = ran + 1 =>
        /\ last'.ran => (appState = "Game" /\ gameState = "Playing")
        /\ ~(appState = "Game" /\ gameState = "Playing") =>
            /\ balls' = balls /\ paddles' = paddles
            /\ score' = score /\ lives' = lives /\ bricks' = bricks]_vars

\* a tick was taken during the countdown, the ball and the paddle in place
C8_Witness ==
    /\ pc = "fixed" /\ ran > 0 /\ ~last.ran
    /\ appState = "Game" /\ gameState = "Starting"
    /\ Len(balls) = 1 /\ Len(paddles) = 1

\* C9: Score never decreases within a game session, and it is lowered or
\* reset only by the entry into AppState Game, which sets it to 0.
C9_ScoreMonotonic ==
    [][/\ score' < score => (appState # "Game" /\ appState' = "Game" /\ score' = 0)
       /\ (appState = "Game" /\ appState' = "Game") => score' >= score]_vars

\* a session entered after one that scored: Score is back to 0
C9_Witness ==
    /\ appState = "Game" /\ score = 0 /\ ticks > 0
    /\ pc = "fixed" /\ ran = 0 /\ ~freshTimer

\* C10: every entry into AppState Game sets Score to 0 and Lives to
\* INITIAL_LIVES, creates one paddle, one ball at the starting position and
\* velocity, the four walls (only the bottom one Deadly) and the full brick
\* grid, and requests sub-state Starting, whatever the previous session left.
C10_GameEntrySetsUp ==
    [][(appState # "Game" /\ appState' = "Game") =>
        /\ score' = 0 /\ lives' = INITIAL_LIVES
        /\ Len(paddles') = 1
        /\ Len(balls') = 1
        /\ balls'[1].x = BALL_STARTING_POSITION.x
        /\ balls'[1].y = BALL_STARTING_POSITION.y
        /\ balls'[1].vx = StartVelocity.x /\ balls'[1].vx > 0
        /\ balls'[1].vy = StartVelocity.y /\ balls'[1].vy < 0
        /\ Len(walls') = 4
        /\ {walls'[i] : i \in DOMAIN walls'} = {"Left", "Right", "Bottom", "Top"}
        /\ \A i \in DOMAIN walls' :
            WallCollider(i, walls'[i]).deadly <=> walls'[i] = "Bottom"
        /\ bricks' = (0 .. n_rows - 1) \X (0 .. n_columns - 1)
        /\ Cardinality(bricks') = n_rows * n_columns
        /\ nextGame' = "Starting"]_vars

\* a session entered from GameOver: the previous one ended with no lives, a
\* positive Score and the sub-state still Playing
C10_Witness ==
    /\ appState = "Game" /\ gameState = "Playing" /\ ~freshTimer
    /\ pc = "fixed" /\ ran = 0
    /\ score = 0 /\ lives = INITIAL_LIVES /\ nextGame = "Starting"
    /\ Len(balls) = 1 /\ Len(paddles) = 1 /\ ticks > 0

\* C11: there is at most one Ball and at most one Paddle in every reachable
\* state, whatever the screens and restarts gone through, and exactly one
\* Ball whenever the simulation step runs (AppState Game, sub-state Playing).
C11_OneBallOnePaddle ==
    /\ Len(balls) <= 1
    /\ Len(paddles) <= 1
    /\ (appState = "Game" /\ gameState = "Playing") => Len(balls) = 1
    /\ last.ran => Len(balls) = 1

\* the simulation step has run in a session entered from the GameOver screen
C11_Witness ==
    /\ appState = "Game" /\ ~freshTimer /\ last.ran
    /\ Len(balls) = 1 /\ Len(paddles) = 1

\* C12: once AppState has left Game no entity of the game screen remains:
\* ball, paddle, walls, bricks, scoreboard and lives UI, countdown overlay.
C12_NothingLeftOutsideGame ==
    appState # "Game" =>
        /\ balls = <<>> /\ paddles = <<>> /\ walls = <<>> /\ bricks = {}
        /\ gameUi = 0 /\ overlay = 0

\* the GameOver screen of a session that ended with a destroyed brick
C12_Witness ==
    /\ appState = "GameOver" /\ score > 0 /\ lives = 0
    /\ balls = <<>> /\ paddles = <<>> /\ walls = <<>> /\ bricks = {}
    /\ gameUi = 0 /\ overlay = 0

\* the changes of AppState the screens allow
AllowedAppChanges ==
    {<<"Menu", "Game">>, <<"Game", "GameOver">>, <<"Game", "Win">>,
     <<"GameOver", "Menu">>, <<"GameOver", "Game">>,
     <<"Win", "Menu">>, <<"Win", "Game">>}

\* C13: every change of AppState is Menu->Game, Game->GameOver, Game->Win,
\* GameOver->Menu, GameOver->Game, Win->Menu or Win->Game; Game->GameOver
\* follows a deadly collision at Lives = 0 and Game->Win a brick collision
\* that leaves no brick.
C13_AppStateChanges ==
    [][appState' # appState =>
        /\ <<appState, appState'>> \in AllowedAppChanges
        /\ appState' = "GameOver" =>
            /\ lives = 0
            /\ \E st \in Steps : st.deadly /\ st.before.lives = 0
        /\ appState' = "Win" =>
            /\ bricks = {}
            /\ \E st \in Steps : st.brick]_vars

\* the Menu screen reached from the GameOver screen of a finished session
C13_Witness ==
    /\ appState = "Menu" /\ gameState = "Playing" /\ menuState = "Main"
    /\ lives = 0 /\ ticks > 0

StartingRequestsPlaying ==
    (gameState = "Starting" /\ pc = "frame") =>
        /\ timer.present /\ freshTimer
        /\ nextGame = "Playing" <=> timer.elapsed >= Secs(STARTING_GAME_DURATION_SECS)

\* C16: once Starting is entered, Playing is requested in the first frame
\* whose accumulated countdown time is at least STARTING_GAME_DURATION_SECS
\* and in no frame before it, and the next frame makes the sub-state Playing;
\* every frame of Starting adds its delta to the accumulated time.
C16_CountdownStartsPlay ==
    /\ []StartingRequestsPlaying
    /\ [][(gameState = "Starting" /\ nextGame = "Playing" /\ pc = "frame"
            /\ pc' = "fixed") => gameState' = "Playing"]_vars
    /\ [][(gameState = "Starting" /\ gameState' = "Playing") =>
            timer.elapsed >= Secs(STARTING_GAME_DURATION_SECS)]_vars
    /\ [][(gameState = "Starting" /\ pc = "fixed" /\ pc' = "frame") =>
            timer'.elapsed = Min(timer.elapsed + ran,
                Secs(STARTING_GAME_DURATION_SECS + GO_DISPLAY_DURATION_SECS))]_vars

\* the first frame whose accumulated time has reached the starting duration
C16_Witness ==
    /\ gameState = "Starting" /\ pc = "frame" /\ nextGame = "Playing"
    /\ timer.elapsed = Secs(STARTING_GAME_DURATION_SECS)

\* the whole numbers of seconds a countdown may show
CountdownNumbers == 1 .. STARTING_GAME_DURATION_SECS

\* C17: throughout a countdown every text of the overlay is a positive whole
\* number of seconds or "GO!"; the numbers never increase; "GO!" is shown
\* once ceiling(remaining - G) is zero; after "GO!" no number is shown again.
C17_CountdownTexts ==
    /\ \A i \in DOMAIN shown :
        shown[i] = "GO!" \/ \E n \in CountdownNumbers : shown[i] = ToString(n)
    /\ \A i, j \in DOMAIN shown : \A m, n \in CountdownNumbers :
        (i < j /\ shown[i] = ToString(m) /\ shown[j] = ToString(n)) => m >= n
    /\ \A i, j \in DOMAIN shown :
        (i < j /\ shown[i] = "GO!") => shown[j] = "GO!"
    /\ (overlay = 1 /\ timer.present /\ freshTimer) =>
        LET r == Secs(STARTING_GAME_DURATION_SECS) - timer.elapsed
        IN  (r <= 0 /\ r > 0 - Secs(1)) => text = "GO!"

\* in a session whose countdown has been set up, the overlay is there while
\* the elapsed time is below D + G
OverlayWhileCounting ==
    (appState = "Game" /\ freshTimer) =>
        /\ overlay <= 1
        /\ timer.elapsed < Secs(STARTING_GAME_DURATION_SECS + GO_DISPLAY_DURATION_SECS)
            => overlay = 1
        /\ overlay = 0 => timer.finished

\* C18: the countdown overlay exists from the entry into Starting for as
\* long as the elapsed time is below D + G, is despawned by the first Update
\* after the elapsed time has reached D + G, and stays absent for the rest
\* of the session.
C18_OverlayLifetime ==
    /\ []OverlayWhileCounting
    /\ [][(gameState # "Starting" /\ gameState' = "Starting") =>
            (overlay' = 1 /\ timer'.elapsed = 0)]_vars
    /\ [][(appState = "Game" /\ freshTimer /\ overlay = 1 /\ timer.finished
            /\ pc = "fixed" /\ pc' = "frame") => overlay' = 0]_vars
    /\ [][(appState = "Game" /\ freshTimer /\ overlay = 0
            /\ appState' = "Game" /\ freshTimer') => overlay' = 0]_vars

\* play goes on after the overlay of the session's countdown was despawned
C18_Witness ==
    /\ appState = "Game" /\ freshTimer /\ overlay = 0 /\ timer.finished
    /\ last.ran /\ score > 0 /\ lives = INITIAL_LIVES

\* C19: in every tick in which the simulation step runs, the phases run
\* once each in the order apply_velocity, move_paddle, check_for_collisions,
\* play_sounds: the paddle is where move_paddle put it, collisions are
\* resolved for the ball where apply_velocity put it and for that paddle,
\* and play_sounds reads the events of these collisions.
C19_PhaseOrder ==
    [][ticks' # ticks =>
        /\ Len(balls) = 1 /\ Len(paddles) = 1 /\ ticks' = ticks + 1 /\ last'.ran
        /\ LET integrated == [balls[1] EXCEPT
                                !.x = balls[1].x + PerTick(balls[1].vx),
                                !.y = balls[1].y + PerTick(balls[1].vy)]
               touched == Colliding(integrated,
                                    ColliderQuery(paddles', walls, bricks), {})
           IN  /\ paddles' = <<move_paddle(paddles[1], keys)>>
               /\ last'.steps = <<>> <=> touched = {}
               /\ last'.steps = <<>> =>
                    (balls' = <<integrated>> /\ dispatched' = events)
               /\ last'.steps # <<>> =>
                    /\ last'.steps[1].before.ball = integrated
                    /\ last'.steps[1].id \in {c.id : c \in touched}
                    /\ dispatched' =
                        events \o last'.steps[Len(last'.steps)].after.events
                    /\ balls' = <<last'.steps[Len(last'.steps)].after.ball>>
        /\ events' = <<>>]_vars

\* a tick in which the paddle was moved and the ball then hit it
C19_Witness ==
    /\ last.ran /\ keys \in {{"ArrowLeft"}, {"ArrowRight"}}
    /\ \E st \in Steps : st.kind = "Paddle"
    /\ paddles # <<0>>

\* the events check_for_collisions writes for one processed collision
StepEvents(st) ==
    <<"Collision">> \o
        (IF ~st.deadly \/ (st.brick /\ st.returned) THEN <<>>
         ELSE IF st.before.lives = 0 THEN <<"GameOver">> ELSE <<"LostLife">>)

RECURSIVE Written(_)
\* the events check_for_collisions writes for a sequence of collisions
Written(steps) ==
    IF steps = <<>> THEN <<>>
    ELSE Written(SubSeq(steps, 1, Len(steps) - 1)) \o StepEvents(steps[Len(steps)])

\* C20: every GameEvent written in a fixed tick is read by play_sounds once,
\* in that tick, also when the tick issued GameOver or Win: outside a tick no
\* event is unread, and what play_sounds read in a tick is exactly what the
\* collisions of that tick wrote.
C20_EventsReadOncePerTick ==
    /\ events = <<>>
    /\ last.ran => dispatched = Written(last.steps)

\* a tick that issued GameOver, whose two events play_sounds has read
C20_Witness ==
    /\ last.ran /\ events = <<>>
    /\ dispatched = <<"Collision", "GameOver">>
    /\ \E st \in Steps : st.deadly /\ st.returned /\ st.after.setApp = "GameOver"

\* the offset of a circle's centre from the closest point of a box
Offset(center, box) ==
    [x |-> center.x - Max(box.x - box.hx, Min(center.x, box.x + box.hx)),
     y |-> center.y - Max(box.y - box.hy, Min(center.y, box.y + box.hy))]

Sides == {"Left", "Right", "Top", "Bottom"}

\* C21: ball_collision returns None for every circle and box whose distance
\* (circle centre to the closest point of the box) is greater than the
\* radius, and a side for every other pair.
C21_NoneIffApart ==
    (probe.fn = "ball_collision" /\ probe.done) =>
        LET o == Offset(probe.center, probe.box)
            apart == o.x * o.x + o.y * o.y > probe.radius * probe.radius
        IN  /\ apart => probe.out = "None"
            /\ ~apart => probe.out \in Sides

\* a circle off the corner of a box whose bounding square reaches the box
\* while the circle does not
C21_Witness ==
    /\ probe.fn = "ball_collision" /\ probe.done /\ probe.out = "None"
    /\ LET o == Offset(probe.center, probe.box)
       IN  /\ 0 < Abs(o.x) /\ Abs(o.x) <= probe.radius
           /\ 0 < Abs(o.y) /\ Abs(o.y) <= probe.radius
           /\ o.x * o.x + o.y * o.y > probe.radius * probe.radius

\* C22: for every overlapping pair, with offset = centre minus closest point:
\* when |offset.x| > |offset.y| the side is Left for offset.x < 0 and Right
\* otherwise; when |offset.x| <= |offset.y|, ties included, the side is Top
\* for offset.y > 0 and Bottom otherwise.
C22_SideOfDominantAxis ==
    (probe.fn = "ball_collision" /\ probe.done /\ probe.out # "None") =>
        LET o == Offset(probe.center, probe.box)
        IN  probe.out =
                IF Abs(o.x) > Abs(o.y)
                THEN (IF o.x < 0 THEN "Left" ELSE "Right")
                ELSE (IF o.y > 0 THEN "Top" ELSE "Bottom")

\* an overlapping pair with a tie off the corner of the box
C22_Witness ==
    /\ probe.fn = "ball_collision" /\ probe.done /\ probe.out = "Bottom"
    /\ LET o == Offset(probe.center, probe.box)
       IN  o.x > 0 /\ o.y = 0 - o.x

\* the bounds of the paddle's translation.x
PaddleLeftBound ==
    (LEFT_WALL + PADDLE_PADDING) * Unit
        + (WALL_THICKNESS * Unit) \div 2 + (PADDLE_SIZE_X * Unit) \div 2

PaddleRightBound ==
    (RIGHT_WALL - PADDLE_PADDING) * Unit
        - (WALL_THICKNESS * Unit) \div 2 - (PADDLE_SIZE_X * Unit) \div 2

\* C23: every move_paddle step leaves the paddle at
\* clamp(old x + direction * PADDLE_SPEED * dt, left_bound, right_bound),
\* direction being (right pressed) - (left pressed), and so the paddle's x is
\* always within [left_bound, right_bound].
C23_PaddleClamped ==
    /\ [](\A i \in DOMAIN paddles :
            PaddleLeftBound <= paddles[i] /\ paddles[i] <= PaddleRightBound)
    /\ [][ticks' # ticks =>
            LET direction == (IF "ArrowRight" \in keys THEN 1 ELSE 0)
                                - (IF "ArrowLeft" \in keys THEN 1 ELSE 0)
                x == paddles[1] + direction * PerTick(PADDLE_SPEED * Unit)
            IN  paddles' = <<IF x < PaddleLeftBound THEN PaddleLeftBound
                             ELSE IF x > PaddleRightBound THEN PaddleRightBound
                             ELSE x>>]_vars

\* one second of play after which the paddle, moved left, is at left_bound
C23_Witness ==
    /\ last.ran /\ ticks = FixedHz /\ keys = {"ArrowLeft"}
    /\ paddles = <<PaddleLeftBound>>
    /\ FixedHz * PerTick(PADDLE_SPEED * Unit) > 0 - PaddleLeftBound

\* the reflection rule relates velocity v, read on a collision with the
\* given side, to velocity w: one component negated under its guard, every
\* other component kept
ReflectionRule(v, side, w) ==
    /\ w.vx = 0 - v.vx <=> (side = "Left" /\ v.vx > 0) \/ (side = "Right" /\ v.vx < 0)
    /\ w.vy = 0 - v.vy <=> (side = "Top" /\ v.vy < 0) \/ (side = "Bottom" /\ v.vy > 0)
    /\ w.vx = v.vx \/ w.vx = 0 - v.vx
    /\ w.vy = v.vy \/ w.vy = 0 - v.vy
    /\ w.vx = v.vx \/ w.vy = v.vy

C25_ReflectIdempotent ==
    probe.fn = "Reflect" =>
        \A i \in 2 .. Len(probe.trace) : probe.trace[i] = probe.trace[2]

\* a velocity the first reflection flipped, reflected again
C25_Witness ==
    /\ probe.fn = "Reflect" /\ Len(probe.trace) >= 3
    /\ probe.trace[2] # probe.trace[1]

\* how many times e occurs in the sequence
Count(seq, e) == Cardinality({i \in DOMAIN seq : seq[i] = e})

\* C26: check_for_collisions writes one Collision event for each collider it
\* finds in collision with the ball, the one that issues GameOver or Win
\* included, and none for a collider that does not collide.
C26_OneCollisionEventEach ==
    last.ran =>
        /\ Count(dispatched, "Collision") = Len(last.steps)
        /\ \A st \in Steps :
            /\ st.side # "None"
            /\ Count(st.after.events, "Collision")
                = Count(st.before.events, "Collision") + 1
        /\ last.steps = <<>> =>
            /\ dispatched = <<>>
            /\ \A i \in DOMAIN balls :
                Colliding(balls[i], ColliderQuery(paddles, walls, bricks), {}) = {}

\* the tick that issued GameOver: one collision, one Collision event
C26_Witness ==
    /\ last.ran /\ Len(last.steps) = 1 /\ last.steps[1].returned
    /\ nextApp = "GameOver" /\ lives = 0
    /\ Count(dispatched, "Collision") = 1

\* C27: a tick that issues neither Win nor GameOver processes every
\* collider that collides with the ball, each once, one after the other;
\* processing stops early only where Win or GameOver is issued, and what
\* the tick leaves is what the last processed collision left.
C27_EveryCollisionProcessed ==
    (last.ran /\ last.steps # <<>>) =>
        LET n == Len(last.steps)
            first == last.steps[1].before
            final == last.steps[n].after
            bricksHit == {<<st.id[2], st.id[3]>> : st \in {t \in Steps : t.brick}}
        IN  /\ \A i \in 1 .. n - 1 :
                /\ ~last.steps[i].returned
                /\ last.steps[i + 1].before = last.steps[i].after
            /\ \A i, j \in 1 .. n : last.steps[i].id = last.steps[j].id => i = j
            /\ last.steps[n].returned <=> final.setApp \in {"Win", "GameOver"}
            /\ (~last.steps[n].returned /\ \A st \in Steps : ~st.deadly) =>
                {st.id : st \in Steps} =
                    {c.id : c \in Colliding(first.ball,
                                ColliderQuery(paddles, walls, last.bricks), {})}
            /\ balls = <<final.ball>> /\ lives = final.lives /\ score = final.score
            /\ score = first.score + Cardinality(bricksHit)
            /\ bricks = last.bricks \ bricksHit

\* two bricks hit in one tick: both destroyed, Score two higher
C27_Witness ==
    /\ last.ran /\ Len(last.steps) = 2 /\ nextApp = "None"
    /\ \A st \in Steps : st.brick /\ ~st.returned
    /\ score = last.steps[1].before.score + 2
    /\ Cardinality(last.bricks \ bricks) = 2

\* C28: within a session a brick is destroyed by its first collision with
\* the ball and Score rises by exactly 1 for it, so between ticks Score plus
\* the number of bricks present is the number of bricks game_setup spawned.
C28_ScoreCountsBricks ==
    /\ appState = "Game" => score + Cardinality(bricks) = Cardinality(BrickGrid)
    /\ \A st \in Steps :
        st.brick =>
            /\ <<st.id[2], st.id[3]>> \in last.bricks \ bricks
            /\ st.after.score = st.before.score + 1

\* a session with all bricks but the two the ball has just destroyed
C28_Witness ==
    /\ appState = "Game" /\ last.ran /\ score = 2
    /\ Cardinality(bricks) = Cardinality(BrickGrid) - 2
    /\ \E st \in Steps : st.brick

\* C29: whenever a ball exists, |vx| and |vy| are what they were at spawn,
\* each BALL_SPEED / sqrt(2) (here to the whole pixel per second): the speed
\* is constant and neither component is zero.
C29_SpeedConstant ==
    \A i \in DOMAIN balls :
        LET ax == Abs(balls[i].vx)
            ay == Abs(balls[i].vy)
            px == ax \div Unit
        IN  /\ ax = Abs(StartVelocity.x) /\ ay = Abs(StartVelocity.y)
            /\ ax = ay /\ ax # 0
            /\ 2 * px * px <= BALL_SPEED * BALL_SPEED
            /\ BALL_SPEED * BALL_SPEED < 2 * (px + 1) * (px + 1)

\* the ball after a reflection off the paddle and then a life-loss reset
C29_Witness ==
    /\ Len(balls) = 1 /\ lives = INITIAL_LIVES - 1
    /\ \E st \in Steps : st.deadly /\ ~st.returned /\ st.before.ball.vx < 0
    /\ balls[1].vx > 0 /\ balls[1].vy > 0

\* the collisions with the Deadly wall that the latest tick processed
DeadlySteps == {i \in DOMAIN last.steps : last.steps[i].deadly}

\* C30: a session starts with INITIAL_LIVES lives; Lives changes only by a
\* collision with the Deadly wall, which lowers it by exactly 1 while it is
\* at least 1, at most once per tick, and play goes on, also at Lives = 0;
\* GameOver is issued by the collision with the Deadly wall at Lives = 0 and
\* by nothing else: the (INITIAL_LIVES + 1)-th of the session.
C30_GameOverOnLastLife ==
    /\ [](/\ lives \in 0 .. INITIAL_LIVES
          /\ Cardinality(DeadlySteps) <= 1
          /\ \A i \in DeadlySteps :
                LET st == last.steps[i]
                IN  IF st.before.lives >= 1
                    THEN /\ st.after.lives = st.before.lives - 1
                         /\ ~st.returned /\ st.after.setApp = "None"
                    ELSE /\ st.after.lives = 0
                         /\ st.returned /\ st.after.setApp = "GameOver")
    /\ [][(appState # "Game" /\ appState' = "Game") => lives' = INITIAL_LIVES]_vars
    /\ [][lives' # lives =>
            \/ appState # "Game" /\ appState' = "Game"
            \/ /\ ticks' # ticks /\ lives' = lives - 1
               /\ \E st \in {last'.steps[i] : i \in DOMAIN last'.steps} : st.deadly]_vars
    /\ [][(nextApp' = "GameOver" /\ nextApp # "GameOver") =>
            /\ ticks' # ticks /\ lives = 0 /\ lives' = 0
            /\ \E st \in {last'.steps[i] : i \in DOMAIN last'.steps} : st.deadly]_vars

\* the last life lost: play goes on with Lives = 0
C30_Witness ==
    /\ appState = "Game" /\ gameState = "Playing" /\ nextApp = "None"
    /\ lives = 0 /\ last.ran
    /\ \E i \in DeadlySteps : last.steps[i].before.lives = 1

\* the collider a processed collision was with, as the tick saw it
ColliderOf(st) ==
    CASE st.kind = "Paddle" -> PaddleCollider(st.id[2], paddles[st.id[2]])
      [] st.kind = "Brick" -> BrickCollider(<<st.id[2], st.id[3]>>)
      [] OTHER -> WallCollider(st.id[2], walls[st.id[2]])

\* the ball's centre lies inside or on the box
CentreInside(ball, box) ==
    /\ box.x - box.hx <= ball.x /\ ball.x <= box.x + box.hx
    /\ box.y - box.hy <= ball.y /\ ball.y <= box.y + box.hy

\* C31: a collision processed with the ball's centre inside or on the
\* collider's box has side Bottom, and the only change it makes to the
\* velocity is to negate vy when vy > 0: a ball inside a collider and moving
\* downward is not reflected.
C31_CentreInsideIsBottom ==
    \A st \in Steps :
        CentreInside(st.before.ball, ColliderOf(st)) =>
            /\ st.side = "Bottom"
            /\ ~st.returned =>
                /\ st.after.ball.vx = st.before.ball.vx
                /\ st.after.ball.vy = IF st.before.ball.vy > 0
                                      THEN 0 - st.before.ball.vy
                                      ELSE st.before.ball.vy

\* the ball's centre inside the paddle, moving downward, not reflected
C31_Witness ==
    \E st \in Steps :
        /\ CentreInside(st.before.ball, ColliderOf(st))
        /\ ~st.returned /\ ~st.deadly
        /\ st.before.ball.vy < 0 /\ st.after.ball.vy = st.before.ball.vy

====
